---------------------------- MODULE Spec2Model ----------------------------
(***************************************************************************)
(* Model of the data explorer's in-process engine:                         *)
(*   store.py    DatasetStore, a lock-guarded registry of DatasetRecords   *)
(*   filters.py  apply_filters, the row-mask filter engine                 *)
(*   utils.py    coerce_value_for_series, ensure_column_exists             *)
(*   charts.py   _bar_chart, _scatter_points                               *)
(*                                                                         *)
(* Spec       : threads calling the DatasetStore methods concurrently.     *)
(* SpecFilter : apply_filters over bounded tables and filter lists.        *)
(* SpecChart  : the chart builders over bounded tables and configs.        *)
(***************************************************************************)
EXTENDS Integers, Sequences, FiniteSets, TLC

VARIABLES
    datasets,     \* store.py:29  self._datasets, in insertion order: <<[key, ref], ...>>
    heap,         \* the DatasetRecord objects ever built, indexed by reference
    lock,         \* store.py:30  self._lock: 0 = free, else the holding thread
    clock,        \* the wall clock read by datetime.now(timezone.utc)
    issued,       \* the ids uuid4() has handed out so far
    th,           \* per thread: program counter, arguments, locals, last result
    created,      \* history: the references create has returned
    clearCalled,  \* history: clear() has run at least once
    fTable,       \* filters.py: the dataframe given to apply_filters
    fFilters,     \* filters.py: the filter list given to apply_filters
    fResult,      \* filters.py: what apply_filters returned for fTable, fFilters
    fPrev,        \* what apply_filters returned for the previous filter list
    fLast,        \* the last change made to the filter list
    cTable,       \* charts.py: the dataframe given to the chart builder
    cConfig,      \* charts.py: the ChartConfig
    cLimit,       \* charts.py: the limit argument of _scatter_points
    cResult       \* charts.py: what the builder returned

storeVars  == <<datasets, heap, lock, clock, issued, th, created, clearCalled>>
filterVars == <<fTable, fFilters, fResult, fPrev, fLast>>
chartVars  == <<cTable, cConfig, cLimit, cResult>>
vars       == <<datasets, heap, lock, clock, issued, th, created, clearCalled,
                fTable, fFilters, fResult, fPrev, fLast,
                cTable, cConfig, cLimit, cResult>>

(***************************************************************************)
(* Bounds of the store model.                                              *)
(***************************************************************************)
NumThreads == 2
MaxIds     == 2
MaxClock   == 2
MaxLimit   == 1

Procs    == 1..NumThreads
Ids      == 1..MaxIds
\* the profile dicts: the one an upload is created with, the ones an update passes
CreateProfiles == {"p1"}
UpdateProfiles == {"p2"}
\* dataframe.shape of the uploaded tables: <<rows, columns>>
Shapes   == {<<1, 2>>, <<2, 0>>}
Limits   == 0..MaxLimit

Min(a, b) == IF a <= b THEN a ELSE b

(***************************************************************************)
(* dict operations on self._datasets (insertion-ordered, unique keys).     *)
(***************************************************************************)
None == 0

HasKey(d, k) == \E i \in 1..Len(d) : d[i].key = k

\* dict.get(k): the stored reference, or None
DictGet(d, k) ==
    IF HasKey(d, k) THEN d[CHOOSE i \in 1..Len(d) : d[i].key = k].ref ELSE None

\* d[k] = v: an existing key keeps its position, a new key goes last
DictSet(d, k, v) ==
    IF HasKey(d, k)
    THEN [i \in 1..Len(d) |-> IF d[i].key = k THEN [key |-> k, ref |-> v] ELSE d[i]]
    ELSE Append(d, [key |-> k, ref |-> v])

\* list(d.values())
DictValues(d) == [i \in 1..Len(d) |-> d[i].ref]

DictKeys(d) == {d[i].key : i \in 1..Len(d)}

(***************************************************************************)
(* uuid4(): 122 random bits. Modelled as never repeating an id already     *)
(* handed out; the set is the ids a call may return.                       *)
(***************************************************************************)
uuid4_Reuse(used) == Ids

uuid4(used) == Ids \ used

(***************************************************************************)
(* datetime.now(timezone.utc): the wall clock, taken to never run          *)
(* backwards. A read sees the clock where it is or one tick later.         *)
(***************************************************************************)
Now(clk) == {t \in {clk, clk + 1} : t <= MaxClock}

\* store.py:37-47  the record create builds
NewRecord_SwapCounts(id, now, shape, profile) ==
    [dataset_id |-> id, created_at |-> now, updated_at |-> now, shape |-> shape,
     profile |-> profile, row_count |-> shape[2], column_count |-> shape[1]]

NewRecord(id, now, shape, profile) ==
    [dataset_id |-> id, created_at |-> now, updated_at |-> now, shape |-> shape,
     profile |-> profile, row_count |-> shape[1], column_count |-> shape[2]]

\* store.py:67  record.updated_at = datetime.now(timezone.utc)
BumpUpdatedAt_Recreate(rec, now) == [rec EXCEPT !.updated_at = now, !.created_at = now]

BumpUpdatedAt(rec, now) == [rec EXCEPT !.updated_at = now]

\* a thread's last result: the method that returned, what it returned or raised.
\* A list result keeps the whole sorted list, the limit, and each record's
\* updated_at as it stands when list_recent returns.
NoResult ==
    [op |-> "none", kind |-> "none", arg |-> 0, recs |-> <<>>, limit |-> 0, ats |-> <<>>]
KeyError(op, id) == [NoResult EXCEPT !.op = op, !.kind = "KeyError", !.arg = id]
RecordRes(op, r) == [NoResult EXCEPT !.op = op, !.kind = "record", !.arg = r]
NoneRes(op)      == [NoResult EXCEPT !.op = op, !.kind = "None"]
ListRes(sorted, limit, h) ==
    [NoResult EXCEPT !.op = "list_recent", !.kind = "list", !.recs = sorted,
                     !.limit = limit,
                     !.ats = [i \in 1..Len(sorted) |-> h[sorted[i]].updated_at]]

\* store.py:54-57  get's outcome for the reference the lookup found
GetResult_NoRaise(ref, id) == IF ref = None THEN NoneRes("get") ELSE RecordRes("get", ref)

GetResult(ref, id) == IF ref = None THEN KeyError("get", id) ELSE RecordRes("get", ref)

Idle == [pc |-> "idle", id |-> 0, profile |-> "p1", ref |-> 0, limit |-> 0,
         snap |-> <<>>, keys |-> <<>>, res |-> NoResult]

(***************************************************************************)
(* list.sort(key=..., reverse=True): the keys are computed first, then the *)
(* list is ordered by key descending, equal keys keeping their order.      *)
(***************************************************************************)
RECURSIVE InsertDesc(_, _)
InsertDesc(sorted, item) ==
    IF sorted = <<>> THEN <<item>>
    ELSE IF Head(sorted).key >= item.key
         THEN <<Head(sorted)>> \o InsertDesc(Tail(sorted), item)
         ELSE <<item>> \o sorted

RECURSIVE SortDescFrom(_, _, _)
SortDescFrom(items, i, acc) ==
    IF i > Len(items) THEN acc
    ELSE SortDescFrom(items, i + 1, InsertDesc(acc, items[i]))

SortByKeyReverse(refs, keys) ==
    LET items  == [i \in 1..Len(refs) |-> [ref |-> refs[i], key |-> keys[i]]]
        sorted == SortDescFrom(items, 1, <<>>)
    IN  [i \in 1..Len(sorted) |-> sorted[i].ref]

\* records[:limit] for limit >= 0
Slice(s, limit) == SubSeq(s, 1, Min(limit, Len(s)))

(***************************************************************************)
(* DatasetStore: one action per step of each method. A `with self._lock`   *)
(* block whose body is one statement is one action, enabled while the lock *)
(* is free; update_profile's block holds the lock across its statements.   *)
(***************************************************************************)
StoreInit ==
    /\ datasets = <<>>
    /\ heap = <<>>
    /\ lock = 0
    /\ clock = 0
    /\ issued = {}
    /\ th = [p \in Procs |-> Idle]
    /\ created = {}
    /\ clearCalled = FALSE

\* store.py:35-47  create: draw the id, read the clock, build the record
CreateCall(p) ==
    /\ th[p].pc = "idle"
    /\ \E id \in uuid4(issued), now \in Now(clock), shape \in Shapes, profile \in CreateProfiles :
        /\ issued' = issued \cup {id}
        /\ clock' = now
        /\ heap' = Append(heap, NewRecord(id, now, shape, profile))
        /\ th' = [th EXCEPT ![p] = [Idle EXCEPT !.pc = "create_48", !.id = id,
                                                !.ref = Len(heap) + 1]]
    /\ UNCHANGED <<datasets, lock, created, clearCalled,
                   filterVars, chartVars>>

\* store.py:48-50  with self._lock: self._datasets[dataset_id] = record; return record
CreateInsert(p) ==
    /\ th[p].pc = "create_48"
    /\ lock = 0
    /\ datasets' = DictSet(datasets, th[p].id, th[p].ref)
    /\ created' = created \cup {th[p].ref}
    /\ th' = [th EXCEPT ![p] = [Idle EXCEPT !.res = RecordRes("create", th[p].ref)]]
    /\ UNCHANGED <<heap, lock, clock, issued, clearCalled,
                   filterVars, chartVars>>

\* get(dataset_id) is called
GetCall(p) ==
    /\ th[p].pc = "idle"
    /\ \E id \in Ids :
        th' = [th EXCEPT ![p] = [Idle EXCEPT !.pc = "get_53", !.id = id]]
    /\ UNCHANGED <<datasets, heap, lock, clock, issued, created, clearCalled,
                   filterVars, chartVars>>

\* store.py:53-57  look the id up under the lock, raise KeyError or return the record
GetLookup(p) ==
    /\ th[p].pc = "get_53"
    /\ lock = 0
    /\ th' = [th EXCEPT ![p] =
                 [Idle EXCEPT !.res = GetResult(DictGet(datasets, th[p].id), th[p].id)]]
    /\ UNCHANGED <<datasets, heap, lock, clock, issued, created, clearCalled,
                   filterVars, chartVars>>

\* update_profile(dataset_id, profile) is called
UpdateCall(p) ==
    /\ th[p].pc = "idle"
    /\ \E id \in Ids, profile \in UpdateProfiles :
        th' = [th EXCEPT ![p] = [Idle EXCEPT !.pc = "up_60", !.id = id,
                                                !.profile = profile]]
    /\ UNCHANGED <<datasets, heap, lock, clock, issued, created, clearCalled,
                   filterVars, chartVars>>

\* store.py:60-62  take the lock; an absent id raises KeyError, which leaves the block
UpdateMissing(p) ==
    /\ th[p].pc = "up_60"
    /\ lock = 0
    /\ ~HasKey(datasets, th[p].id)
    /\ th' = [th EXCEPT ![p] = [Idle EXCEPT !.res = KeyError("update_profile", th[p].id)]]
    /\ UNCHANGED <<datasets, heap, lock, clock, issued, created, clearCalled,
                   filterVars, chartVars>>

\* store.py:60-64  take the lock; record = self._datasets[id]; record.profile = profile
UpdateSetProfile(p) ==
    /\ th[p].pc = "up_60"
    /\ lock = 0
    /\ HasKey(datasets, th[p].id)
    /\ LET ref == DictGet(datasets, th[p].id) IN
        /\ heap' = [heap EXCEPT ![ref].profile = th[p].profile]
        /\ th' = [th EXCEPT ![p].pc = "up_65", ![p].ref = ref]
    /\ lock' = p
    /\ UNCHANGED <<datasets, clock, issued, created, clearCalled,
                   filterVars, chartVars>>

\* store.py:65  record.row_count = int(record.dataframe.shape[0])
UpdateSetRowCount(p) ==
    /\ th[p].pc = "up_65"
    /\ heap' = [heap EXCEPT ![th[p].ref].row_count = heap[th[p].ref].shape[1]]
    /\ th' = [th EXCEPT ![p].pc = "up_66"]
    /\ UNCHANGED <<datasets, lock, clock, issued, created, clearCalled,
                   filterVars, chartVars>>

\* store.py:66  record.column_count = int(record.dataframe.shape[1])
UpdateSetColumnCount(p) ==
    /\ th[p].pc = "up_66"
    /\ heap' = [heap EXCEPT ![th[p].ref].column_count = heap[th[p].ref].shape[2]]
    /\ th' = [th EXCEPT ![p].pc = "up_67"]
    /\ UNCHANGED <<datasets, lock, clock, issued, created, clearCalled,
                   filterVars, chartVars>>

\* store.py:67  record.updated_at = datetime.now(timezone.utc); the block ends
UpdateSetUpdatedAt(p) ==
    /\ th[p].pc = "up_67"
    /\ \E now \in Now(clock) :
        /\ clock' = now
        /\ heap' = [heap EXCEPT ![th[p].ref] = BumpUpdatedAt(heap[th[p].ref], now)]
    /\ lock' = 0
    /\ th' = [th EXCEPT ![p] = [Idle EXCEPT !.res = NoneRes("update_profile")]]
    /\ UNCHANGED <<datasets, issued, created, clearCalled,
                   filterVars, chartVars>>

\* list_recent(limit) is called
ListCall(p) ==
    /\ th[p].pc = "idle"
    /\ \E limit \in Limits :
        th' = [th EXCEPT ![p] = [Idle EXCEPT !.pc = "lr_70", !.limit = limit]]
    /\ UNCHANGED <<datasets, heap, lock, clock, issued, created, clearCalled,
                   filterVars, chartVars>>

\* store.py:70-71  with self._lock: records = list(self._datasets.values())
ListSnapshot(p) ==
    /\ th[p].pc = "lr_70"
    /\ lock = 0
    /\ th' = [th EXCEPT ![p].pc = "lr_72", ![p].snap = DictValues(datasets)]
    /\ UNCHANGED <<datasets, heap, lock, clock, issued, created, clearCalled,
                   filterVars, chartVars>>

\* store.py:72  sort calls the key function on the next record: rec.updated_at
ListKey(p) ==
    /\ th[p].pc = "lr_72"
    /\ Len(th[p].keys) < Len(th[p].snap)
    /\ th' = [th EXCEPT ![p].keys =
                 Append(th[p].keys, heap[th[p].snap[Len(th[p].keys) + 1]].updated_at)]
    /\ UNCHANGED <<datasets, heap, lock, clock, issued, created, clearCalled,
                   filterVars, chartVars>>

\* store.py:72-73  order the list by the keys, newest first; return records[:limit]
ListReturn(p) ==
    /\ th[p].pc = "lr_72"
    /\ Len(th[p].keys) = Len(th[p].snap)
    /\ th' = [th EXCEPT ![p] =
                 [Idle EXCEPT !.res =
                     ListRes(SortByKeyReverse(th[p].snap, th[p].keys), th[p].limit,
                             heap)]]
    /\ UNCHANGED <<datasets, heap, lock, clock, issued, created, clearCalled,
                   filterVars, chartVars>>

\* store.py:75-77  clear
Clear(p) ==
    /\ th[p].pc = "idle"
    /\ lock = 0
    /\ datasets' = <<>>
    /\ clearCalled' = TRUE
    /\ th' = [th EXCEPT ![p] = [Idle EXCEPT !.res = NoneRes("clear")]]
    /\ UNCHANGED <<heap, lock, clock, issued, created,
                   filterVars, chartVars>>

Next ==
    \E p \in Procs :
        \/ CreateCall(p)
        \/ CreateInsert(p)
        \/ GetCall(p)
        \/ GetLookup(p)
        \/ UpdateCall(p)
        \/ UpdateMissing(p)
        \/ UpdateSetProfile(p)
        \/ UpdateSetRowCount(p)
        \/ UpdateSetColumnCount(p)
        \/ UpdateSetUpdatedAt(p)
        \/ ListCall(p)
        \/ ListSnapshot(p)
        \/ ListKey(p)
        \/ ListReturn(p)
        \/ Clear(p)

FilterIdle ==
    /\ fTable = <<>> /\ fFilters = <<>> /\ fResult = <<>> /\ fPrev = <<>> /\ fLast = "none"

ChartIdle ==
    /\ cTable = <<>> /\ cConfig = <<>> /\ cLimit = 0 /\ cResult = <<>>

Init == StoreInit /\ FilterIdle /\ ChartIdle

Spec == Init /\ [][Next]_vars

(***************************************************************************)
(* Tables (pandas DataFrames) and cell values.                             *)
(* A value is a tagged scalar: None, float NaN, a number or a string.      *)
(* A table has a dtype per column and rows in index order; each row keeps  *)
(* its index label through boolean selection.                              *)
(***************************************************************************)
MaxRows    == 2
MaxFilters == 2

Null   == [t |-> "null", n |-> 0, s |-> ""]
NaN    == [t |-> "nan", n |-> 0, s |-> ""]
Num(k) == [t |-> "num", n |-> k, s |-> ""]
Str(x) == [t |-> "str", n |-> 0, s |-> x]

\* pd.isna(value), and Series.isna() on one cell
IsNa(v) == v.t \in {"null", "nan"}

\* the string literals of the model, with what str.strip() and float() make of them
Strings == {"", " ", "1", "10", "9", "a"}

Strip(x) == IF x = " " THEN "" ELSE x

FloatParses(x) == x \in {"1", "10", "9"}

FloatOf(x) == CASE x = "1" -> 1 [] x = "10" -> 10 [] x = "9" -> 9 [] OTHER -> 0

\* the order of str comparison on the model's strings
StrRank(x) ==
    CASE x = "" -> 0 [] x = " " -> 1 [] x = "1" -> 2 [] x = "10" -> 3 [] x = "9" -> 4
      [] OTHER -> 5

NumericCells == {Num(1), Num(2), NaN}
ObjectCells  == {Str("1"), Str("a"), Null}

\* the column that no table has
MissingColumn == "zz"

Columns(df) == DOMAIN df.dtype

RowsOver(cellRows) ==
    UNION {[1..n -> cellRows] : n \in 0..MaxRows}

WithIndex(cells) == [i \in 1..Len(cells) |-> [idx |-> i, cells |-> cells[i]]]

Tables ==
    {[dtype |-> [a |-> "float64", s |-> "object"], rows |-> WithIndex(cells)] :
        cells \in RowsOver({[a |-> x, s |-> y] : x \in NumericCells, y \in ObjectCells})}
    \cup
    {[dtype |-> [a |-> "float64"], rows |-> WithIndex(cells)] :
        cells \in RowsOver({[a |-> x] : x \in NumericCells})}

\* schemas.py:87-96  EqualsFilter and RangeFilter
EqualsFilter(column, value) ==
    [type |-> "equals", column |-> column, value |-> value, min |-> Null, max |-> Null]

RangeFilter(column, min, max) ==
    [type |-> "range", column |-> column, value |-> Null, min |-> min, max |-> max]

EqualsValues == {Null, NaN, Num(1), Num(2), Str(""), Str(" "), Str("1"), Str("a")}
RangeBounds  == {Null, Num(1), Num(2), Str(""), Str("a")}

FiltersOn(columns) ==
    {EqualsFilter(c, v) : c \in columns, v \in EqualsValues}
    \cup {RangeFilter(c, lo, hi) : c \in columns, lo \in RangeBounds, hi \in RangeBounds}

MissingColumnFilters ==
    {EqualsFilter(MissingColumn, Null), EqualsFilter(MissingColumn, Num(1)),
     RangeFilter(MissingColumn, Num(1), Null), RangeFilter(MissingColumn, Null, Str("a"))}

Filters == FiltersOn({"a", "s"}) \cup MissingColumnFilters

\* utils.py:53-75  coerce_value_for_series, for a float64 or an object column
coerce_value_for_series_BlankIsZero(dtype, value) ==
    IF IsNa(value) THEN value
    ELSE IF dtype = "float64"
         THEN IF value.t = "str" /\ Strip(value.s) = "" THEN Num(0)
              ELSE IF value.t = "num" THEN value
              ELSE IF FloatParses(Strip(value.s)) THEN Num(FloatOf(Strip(value.s)))
              ELSE value
         ELSE value

coerce_value_for_series(dtype, value) ==
    IF IsNa(value) THEN value                                  \* utils.py:54-55
    ELSE IF dtype = "float64"                                  \* utils.py:59
         THEN IF value.t = "str" /\ Strip(value.s) = "" THEN Null         \* 60-61
              ELSE IF value.t = "num" THEN value                          \* 62
              ELSE IF FloatParses(Strip(value.s)) THEN Num(FloatOf(Strip(value.s)))
              ELSE value                      \* float() raised ValueError: 73-74
         ELSE value                                            \* utils.py:75

\* utils.py:78-81  ensure_column_exists raises KeyError for an absent column
ColumnExists(df, column) == column \in Columns(df)

\* series == value on one cell, value not null
CellEq(cell, value) == cell.t = value.t /\ cell.n = value.n /\ cell.s = value.s

\* series >= value and series <= value on one cell: False against a null on either side
CellGe(cell, value) ==
    /\ ~IsNa(cell) /\ ~IsNa(value) /\ cell.t = value.t
    /\ IF cell.t = "num" THEN cell.n >= value.n ELSE StrRank(cell.s) >= StrRank(value.s)

CellLe(cell, value) ==
    /\ ~IsNa(cell) /\ ~IsNa(value) /\ cell.t = value.t
    /\ IF cell.t = "num" THEN cell.n <= value.n ELSE StrRank(cell.s) <= StrRank(value.s)

\* an ordering comparison raises TypeError: a numeric column against a string
\* always, an object column against a number as soon as one cell is a string
CompareRaises(df, column, value) ==
    \/ df.dtype[column] = "float64" /\ value.t = "str"
    \/ /\ df.dtype[column] = "object" /\ value.t = "num"
       /\ \E i \in 1..Len(df.rows) : ~IsNa(df.rows[i].cells[column])

Mask(flags) == [err |-> FALSE, flags |-> flags]
Raised      == [err |-> TRUE, flags |-> <<>>]

\* mask &= condition
MaskAnd_Assign(mask, cond) == cond

MaskAnd(mask, cond) == [i \in 1..Len(mask) |-> mask[i] /\ cond[i]]

\* filters.py:20-23  the filter names an absent column: continue
SkipFilter_MatchNothing(mask) == [i \in 1..Len(mask) |-> FALSE]

SkipFilter(mask) == mask

\* filters.py:25-31  the equals branch
EqualsMask_CompareNull(df, f, mask) ==
    LET value == coerce_value_for_series(df.dtype[f.column], f.value)
    IN  MaskAnd(mask, [i \in 1..Len(df.rows) |->
                          CellEq(df.rows[i].cells[f.column], value)])

EqualsMask(df, f, mask) ==
    LET value == coerce_value_for_series(df.dtype[f.column], f.value)
    IN  IF IsNa(value)
        THEN MaskAnd(mask, [i \in 1..Len(df.rows) |-> IsNa(df.rows[i].cells[f.column])])
        ELSE MaskAnd(mask, [i \in 1..Len(df.rows) |->
                               CellEq(df.rows[i].cells[f.column], value)])

\* filters.py:32-39  the range branch: min, then max; either comparison may raise
RangeMask(df, f, mask) ==
    LET dtype == df.dtype[f.column]
        lo    == coerce_value_for_series(dtype, f.min)
        hi    == coerce_value_for_series(dtype, f.max)
        m1    == IF f.min.t = "null" THEN mask
                 ELSE MaskAnd(mask, [i \in 1..Len(df.rows) |->
                                        CellGe(df.rows[i].cells[f.column], lo)])
        m2    == IF f.max.t = "null" THEN m1
                 ELSE MaskAnd(m1, [i \in 1..Len(df.rows) |->
                                      CellLe(df.rows[i].cells[f.column], hi)])
    IN  IF f.min.t # "null" /\ CompareRaises(df, f.column, lo) THEN Raised
        ELSE IF f.max.t # "null" /\ CompareRaises(df, f.column, hi) THEN Raised
        ELSE Mask(m2)

\* filters.py:18-39  the loop over the filters, from filter k on
RECURSIVE MaskFrom(_, _, _, _)
MaskFrom(df, filters, k, mask) ==
    IF k > Len(filters) THEN Mask(mask)
    ELSE LET f == filters[k] IN
         IF ~ColumnExists(df, f.column) THEN MaskFrom(df, filters, k + 1, SkipFilter(mask))
         ELSE IF f.type = "equals"
              THEN MaskFrom(df, filters, k + 1, EqualsMask(df, f, mask))
              ELSE LET r == RangeMask(df, f, mask) IN
                   IF r.err THEN Raised ELSE MaskFrom(df, filters, k + 1, r.flags)

\* dataframe[mask]: the rows whose flag is set, in order. flags has one entry per
\* row of the frame the rows come from, under the row's index label.
SelectRows(rows, flags) == SelectSeq(rows, LAMBDA r : flags[r.idx])

TableResult(rows) == [kind |-> "table", rows |-> rows]
TypeError         == [kind |-> "TypeError", rows |-> <<>>]

\* filters.py:11-41  apply_filters
apply_filters(df, filters) ==
    IF filters = <<>> THEN TableResult(df.rows)                  \* filters.py:12-14
    ELSE LET m == MaskFrom(df, filters, 1, [i \in 1..Len(df.rows) |-> TRUE])
         IN  IF m.err THEN TypeError
             ELSE TableResult(SelectRows(df.rows, m.flags))   \* filters.py:41

InsertAt(seq, pos, x) == SubSeq(seq, 1, pos - 1) \o <<x>> \o SubSeq(seq, pos, Len(seq))

(***************************************************************************)
(* SpecFilter: a table is chosen, then the filter list grows one filter at *)
(* a time and apply_filters is run on each list.                           *)
(***************************************************************************)
FilterInit ==
    /\ StoreInit
    /\ ChartIdle
    /\ fTable \in Tables
    /\ fFilters = <<>>
    /\ fResult = apply_filters(fTable, <<>>)
    /\ fPrev = fResult
    /\ fLast = "none"

\* one more filter on a column of the table is added at the end of the list
AppendFilter ==
    /\ Len(fFilters) < MaxFilters
    /\ \E f \in FiltersOn(Columns(fTable)) :
        /\ fFilters' = Append(fFilters, f)
        /\ fResult' = apply_filters(fTable, fFilters')
    /\ fPrev' = fResult
    /\ fLast' = "append"
    /\ UNCHANGED <<fTable, storeVars, chartVars>>

\* a filter on a column the table does not have is inserted at any position
InsertMissingColumnFilter ==
    /\ Len(fFilters) < MaxFilters
    /\ \E g \in {f \in Filters : ~ColumnExists(fTable, f.column)},
          pos \in 1..(Len(fFilters) + 1) :
        /\ fFilters' = InsertAt(fFilters, pos, g)
        /\ fResult' = apply_filters(fTable, fFilters')
    /\ fPrev' = fResult
    /\ fLast' = "insert_missing"
    /\ UNCHANGED <<fTable, storeVars, chartVars>>

FilterNext == AppendFilter \/ InsertMissingColumnFilter

SpecFilter == FilterInit /\ [][FilterNext]_vars

(***************************************************************************)
(* charts.py: the bar and scatter builders.                                *)
(***************************************************************************)
MaxChartRows == 3

\* charts.py:55  def _scatter_points(dataframe, config, limit: int = 500)
ScatterLimit == 500

\* ChartConfig.y / ChartConfig.color left at None
NoColumn == "<None>"

\* the name reset_index(name="value") gives the aggregate column (charts.py:30,39,41)
ValueColumn == "value"

ChartObjectCells == {Str("10"), Str("9"), Str("a"), Null}

\* tables with a float64 column and an object column; the float64 column is
\* called "a" in one family and "value" in the other
ChartTables ==
    {[dtype |-> [a |-> "float64", s |-> "object"], rows |-> WithIndex(cells)] :
        cells \in UNION {[1..n -> {[a |-> x, s |-> y] :
                                     x \in NumericCells, y \in ChartObjectCells}] :
                         n \in 0..MaxChartRows}}
    \cup
    {[dtype |-> [value |-> "float64", s |-> "object"], rows |-> WithIndex(cells)] :
        cells \in UNION {[1..n -> {[value |-> x, s |-> y] :
                                     x \in NumericCells, y \in ChartObjectCells}] :
                         n \in 0..MaxChartRows}}

\* a table longer than the scatter limit: the first row has no x, the last row
\* has the smallest x
LongTable ==
    [dtype |-> [a |-> "float64", s |-> "object"],
     rows  |-> [i \in 1..(ScatterLimit + 2) |->
                  [idx   |-> i,
                   cells |-> [a |-> IF i = 1 THEN NaN
                                    ELSE IF i = ScatterLimit + 2 THEN Num(1)
                                    ELSE Num(2 + (i % 3)),
                              s |-> IF i % 2 = 0 THEN Str("10") ELSE Str("9")]]]]

ChartColumnNames == {"a", "s", ValueColumn, MissingColumn}

\* schemas.py:106  bin_count: Optional[int] = Field(default=10, alias="binCount")
DefaultBinCount == 10

\* schemas.py:101-109  ChartConfig
ChartConfig(chart_type, x, y, color, aggregation) ==
    [chart_type |-> chart_type, x |-> x, y |-> y, color |-> color,
     bin_count |-> DefaultBinCount, aggregation |-> aggregation]

\* what a builder returns or raises
Series(items)    == [kind |-> "series", arg |-> "", items |-> items]
Points(items)    == [kind |-> "points", arg |-> "", items |-> items]
\* a KeyError that does not say which column was looked up
ColumnKeyError_Unnamed(c) == [kind |-> "KeyError", arg |-> "", items |-> <<>>]

\* utils.py:80  raise KeyError(f"Column '{column}' not found")
ColumnKeyError(c) == [kind |-> "KeyError", arg |-> c, items |-> <<>>]
ValueError       == [kind |-> "ValueError", arg |-> "", items |-> <<>>]
Bins(items)      == [kind |-> "bins", arg |-> "", items |-> items]
NoChart          == [kind |-> "none", arg |-> "", items |-> <<>>]

\* pd.to_numeric(series, errors="coerce") on one cell
ToNumeric(cell) ==
    IF cell.t = "num" THEN cell
    ELSE IF cell.t = "str" /\ FloatParses(cell.s) THEN Num(FloatOf(cell.s))
    ELSE NaN

\* float(row[column]) raises ValueError on a string that is no number
FloatRaises(cell) == cell.t = "str" /\ ~FloatParses(cell.s)

FloatValue(cell) == IF cell.t = "str" THEN FloatOf(cell.s) ELSE cell.n

\* frame[column] = cells, frame.assign(column=cells): the column is added or replaced
\* (cells are given per row of the frame)
SetColumn(df, column, dtype, cells) ==
    [dtype |-> [c \in Columns(df) \cup {column} |->
                   IF c = column THEN dtype ELSE df.dtype[c]],
     rows  |-> [i \in 1..Len(df.rows) |->
                   [idx   |-> df.rows[i].idx,
                    cells |-> [c \in Columns(df) \cup {column} |->
                                  IF c = column THEN cells[i]
                                  ELSE df.rows[i].cells[c]]]]]

\* frame.dropna(subset=columns)
DropNa(df, subset) ==
    [df EXCEPT !.rows = SelectSeq(df.rows, LAMBDA r : \A c \in subset : ~IsNa(r.cells[c]))]

\* frame.iloc[:limit]
ILocHead(df, limit) == [df EXCEPT !.rows = SubSeq(df.rows, 1, Min(limit, Len(df.rows)))]

\* the order pandas sorts the non-null values of one column in
CellLess(u, v) ==
    IF u.t = "num" THEN u.n < v.n ELSE StrRank(u.s) < StrRank(v.s)

\* frame.sort_values(by=column), no nulls left in the column: ascending, rows with
\* equal values keeping their order
SortValues_Unsorted(df, column) == df

SortValues(df, column) ==
    [df EXCEPT !.rows =
        SortSeq(df.rows, LAMBDA r1, r2 : CellLess(r1.cells[column], r2.cells[column]))]

(***************************************************************************)
(* _bar_chart, charts.py:20-52                                             *)
(***************************************************************************)
\* charts.py:21-25  group_keys = [config.x] (+ [config.color])
GroupKeys(config) ==
    IF config.color # NoColumn THEN <<config.x, config.color>> ELSE <<config.x>>

KeyOf(row, keys) == [k \in 1..Len(keys) |-> row.cells[keys[k]]]

\* groupby(..., dropna=False) orders the groups by key, column by column, a null
\* key after every other value
KeyCellBefore(u, v) ==
    IF IsNa(u) THEN FALSE ELSE IF IsNa(v) THEN TRUE ELSE CellLess(u, v)

RECURSIVE KeyBefore(_, _, _)
KeyBefore(k1, k2, i) ==
    IF i > Len(k1) THEN FALSE
    ELSE IF KeyCellBefore(k1[i], k2[i]) THEN TRUE
    ELSE IF KeyCellBefore(k2[i], k1[i]) THEN FALSE
    ELSE KeyBefore(k1, k2, i + 1)

RECURSIVE SortedKeys(_)
SortedKeys(keys) ==
    IF keys = {} THEN <<>>
    ELSE LET first == CHOOSE k \in keys : \A o \in keys \ {k} : KeyBefore(k, o, 1)
         IN  <<first>> \o SortedKeys(keys \ {first})

SortedKeys_Reversed(keys) ==
    LET asc == SortedKeys(keys) IN [i \in 1..Len(asc) |-> asc[Len(asc) + 1 - i]]

\* the groups in the order groupby (sort=True) emits them
GroupOrder(keys) == SortedKeys(keys)

GroupRows(df, keys, key) == SelectSeq(df.rows, LAMBDA r : KeyOf(r, keys) = key)

RECURSIVE SumOf(_, _, _)
SumOf(rows, column, i) ==
    IF i > Len(rows) THEN 0 ELSE rows[i].cells[column].n + SumOf(rows, column, i + 1)

\* the aggregate of one group: size(), sum() or mean() as the fraction num/den
GroupValue_CountAll(df, rows, config) == [num |-> Len(df.rows), den |-> 1]

GroupValue(df, rows, config) ==
    CASE config.aggregation = "count" -> [num |-> Len(rows), den |-> 1]
      [] config.aggregation = "sum"   -> [num |-> SumOf(rows, config.y, 1), den |-> 1]
      [] OTHER -> [num |-> SumOf(rows, config.y, 1), den |-> Len(rows)]

\* reset_index(name="value") inserts one column per group key next to the column
\* "value"; DataFrame.insert raises ValueError when the name is already there
ResetIndexRaises(keys) ==
    \/ \E k \in 1..Len(keys) : keys[k] = ValueColumn
    \/ \E j, k \in 1..Len(keys) : j # k /\ keys[j] = keys[k]

\* charts.py:43-52  one record per row of the grouped frame
BarRecords(df, config) ==
    LET keys   == GroupKeys(config)
        order  == GroupOrder({KeyOf(df.rows[i], keys) : i \in 1..Len(df.rows)})
    IN  [g \in 1..Len(order) |->
            [category |-> order[g][1],
             value    |-> GroupValue(df, GroupRows(df, keys, order[g]), config),
             color    |-> IF config.color # NoColumn THEN order[g][2] ELSE Null]]

bar_chart(df, config) ==
    IF ~ColumnExists(df, config.x) THEN ColumnKeyError(config.x)          \* 21
    ELSE IF config.color # NoColumn /\ ~ColumnExists(df, config.color)
         THEN ColumnKeyError(config.color)                               \* 23-24
    ELSE LET working == DropNa(df, {config.x}) IN                        \* 27
         IF config.aggregation = "count"
         THEN IF ResetIndexRaises(GroupKeys(config)) THEN ValueError     \* 30
              ELSE Series(BarRecords(working, config))
         ELSE IF config.y = NoColumn THEN ValueError                     \* 32-33
         ELSE IF ~ColumnExists(df, config.y) THEN ColumnKeyError(config.y)   \* 34
         ELSE LET numeric == SetColumn(working, config.y, "float64",     \* 35-36
                                [i \in 1..Len(working.rows) |->
                                    ToNumeric(working.rows[i].cells[config.y])])
                  kept    == DropNa(numeric, {config.y})
              IN  IF ResetIndexRaises(GroupKeys(config)) THEN ValueError \* 39, 41
                  ELSE Series(BarRecords(kept, config))

(***************************************************************************)
(* _scatter_points, charts.py:55-79                                        *)
(***************************************************************************)
\* charts.py:72-78  one point per row of the working frame
ScatterPoints(working, config, hasColor) ==
    [i \in 1..Len(working.rows) |->
        [x     |-> FloatValue(working.rows[i].cells[config.x]),
         y     |-> FloatValue(working.rows[i].cells[config.y]),
         color |-> IF hasColor THEN working.rows[i].cells[config.color] ELSE Null]]

scatter_points(df, config, limit) ==
    IF config.y = NoColumn THEN ValueError                               \* 56-57
    ELSE IF ~ColumnExists(df, config.x) THEN ColumnKeyError(config.x)     \* 59
    ELSE IF ~ColumnExists(df, config.y) THEN ColumnKeyError(config.y)     \* 60
    ELSE LET n      == Len(df.rows)
             base   == [dtype |-> [c \in {config.x, config.y} |-> "float64"],   \* 62
                        rows  |-> [i \in 1..n |->
                                    [idx   |-> df.rows[i].idx,
                                     cells |-> [c \in {config.x, config.y} |->
                                                  ToNumeric(df.rows[i].cells[c])]]]]
             hasColor == config.color # NoColumn /\ ColumnExists(df, config.color)
             colored == IF hasColor                                       \* 63-64
                        THEN SetColumn(base, config.color, df.dtype[config.color],
                                       [i \in 1..n |-> df.rows[i].cells[config.color]])
                        ELSE base
             valid   == DropNa(colored, {config.x, config.y})             \* 66
             head    == ILocHead(valid, limit)                            \* 67
             working == SortValues(head, config.x)                        \* 68
         IN  IF \E i \in 1..Len(working.rows) :
                    \/ FloatRaises(working.rows[i].cells[config.x])       \* 73
                    \/ FloatRaises(working.rows[i].cells[config.y])       \* 74
             THEN ValueError
             ELSE Points(ScatterPoints(working, config, hasColor))

(***************************************************************************)
(* _histogram_bins, charts.py:82-100. Bin edges are fractions num/den; the *)
(* outer edges are kept in halves (twice their value) so that the edges of *)
(* an expanded range stay integers.                                        *)
(***************************************************************************)
\* charts.py:83-84  the numeric values of column x, nulls dropped, in row order
NumericValues(df, column) ==
    LET kept == SelectSeq(df.rows, LAMBDA r : ~IsNa(ToNumeric(r.cells[column])))
    IN  [i \in 1..Len(kept) |-> ToNumeric(kept[i].cells[column]).n]

\* charts.py:88  bin_count = config.bin_count or 10 (None and 0 are both falsy)
BinCountOr10(config) ==
    IF config.bin_count = None THEN 10 ELSE config.bin_count

\* np.histogram, _get_outer_edges: (a.min(), a.max()), and when the two are equal
\* the range is expanded to (min - 0.5, max + 0.5); returned in halves
OuterEdges_NoExpand(values) ==
    LET vals == {values[i] : i \in 1..Len(values)}
        mn   == CHOOSE m \in vals : \A v \in vals : m <= v
        mx   == CHOOSE m \in vals : \A v \in vals : m >= v
    IN  <<2 * mn, 2 * mx>>

OuterEdges(values) ==
    LET vals == {values[i] : i \in 1..Len(values)}
        mn   == CHOOSE m \in vals : \A v \in vals : m <= v
        mx   == CHOOSE m \in vals : \A v \in vals : m >= v
    IN  IF mn = mx THEN <<2 * mn - 1, 2 * mx + 1>> ELSE <<2 * mn, 2 * mx>>

\* np.linspace(first_edge, last_edge, n + 1)[i], i in 0..n
BinEdge(outer, n, i) ==
    [num |-> n * outer[1] + i * (outer[2] - outer[1]), den |-> 2 * n]

\* np.histogram: the bin of value v is floor((v - first) / (last - first) * n),
\* and a value on the last edge goes to the last bin (bins numbered from 0)
BinIndex_DropLastEdge(outer, n, v) ==
    ((2 * v - outer[1]) * n) \div (outer[2] - outer[1])

BinIndex(outer, n, v) ==
    LET k == ((2 * v - outer[1]) * n) \div (outer[2] - outer[1])
    IN  IF k = n THEN n - 1 ELSE k

\* np.histogram: counts[i] = how many values fall in bin i
BinCounts(values, outer, n) ==
    [b \in 1..n |->
        Cardinality({j \in 1..Len(values) : BinIndex(outer, n, values[j]) = b - 1})]

\* charts.py:91-99  one record per bin
BinRecords(values, n) ==
    LET outer  == OuterEdges(values)
        counts == BinCounts(values, outer, n)
    IN  [b \in 1..n |->
            [binStart |-> BinEdge(outer, n, b - 1),
             binEnd   |-> BinEdge(outer, n, b),
             count    |-> counts[b]]]

histogram_bins(df, config) ==
    IF ~ColumnExists(df, config.x) THEN ColumnKeyError(config.x)          \* 83
    ELSE LET numeric == NumericValues(df, config.x) IN                   \* 83-84
         IF Len(numeric) = 0 THEN Bins(<<>>)                             \* 85-86
         ELSE LET bin_count == BinCountOr10(config) IN                   \* 88
              IF bin_count < 1 THEN ValueError      \* 89, `bins` must be positive
              ELSE Bins(BinRecords(numeric, bin_count))                  \* 89-100

(***************************************************************************)
(* SpecChart: a table is chosen, then one chart is built from it.          *)
(***************************************************************************)
ChartInit ==
    /\ StoreInit
    /\ FilterIdle
    /\ cTable \in ChartTables \cup {LongTable}
    /\ cConfig = ChartConfig("none", NoColumn, NoColumn, NoColumn, "count")
    /\ cLimit = 0
    /\ cResult = NoChart

\* charts.py:107-108  build_chart_response, ChartType.BAR
BuildBar ==
    /\ cConfig.chart_type = "none"
    /\ \E x \in ChartColumnNames, y \in ChartColumnNames \cup {NoColumn},
          color \in ChartColumnNames \cup {NoColumn},
          aggregation \in {"count", "sum", "avg"} :
        /\ cConfig' = ChartConfig("bar", x, y, color, aggregation)
        /\ cResult' = bar_chart(cTable, cConfig')
    /\ UNCHANGED <<cTable, cLimit, storeVars, filterVars>>

\* charts.py:117-118  build_chart_response, ChartType.SCATTER (limit = 500), and
\* _scatter_points called with a smaller limit
BuildScatter ==
    /\ cConfig.chart_type = "none"
    /\ \E x \in ChartColumnNames, y \in ChartColumnNames \cup {NoColumn},
          color \in ChartColumnNames \cup {NoColumn},
          limit \in {1, 2, ScatterLimit} :
        /\ cConfig' = ChartConfig("scatter", x, y, color, "count")
        /\ cLimit' = limit
        /\ cResult' = scatter_points(cTable, cConfig', limit)
    /\ UNCHANGED <<cTable, storeVars, filterVars>>

\* the values of config.bin_count tried: unset, positive, negative
BinCounts_Tried == {None, 1, 2, 3, -1}

\* charts.py:127-128  build_chart_response, ChartType.HISTOGRAM
BuildHistogram ==
    /\ cConfig.chart_type = "none"
    /\ \E x \in ChartColumnNames, y \in {NoColumn, MissingColumn},
          color \in {NoColumn, MissingColumn, "s"},
          bin_count \in BinCounts_Tried :
        /\ cConfig' = [ChartConfig("histogram", x, y, color, "count")
                          EXCEPT !.bin_count = bin_count]
        /\ cResult' = histogram_bins(cTable, cConfig')
    /\ UNCHANGED <<cTable, cLimit, storeVars, filterVars>>

ChartNext == BuildBar \/ BuildScatter \/ BuildHistogram

SpecChart == ChartInit /\ [][ChartNext]_vars

(***************************************************************************)
(* Claims about the DatasetStore, checked under Spec.                      *)
(***************************************************************************)
Returned(res) == Slice(res.recs, res.limit)

NoCreateInFlight == \A p \in Procs : th[p].pc # "create_48"

RowAndColumnCountsMatch(rec) ==
    rec.row_count = rec.shape[1] /\ rec.column_count = rec.shape[2]

\* C1: as long as clear has not run, the records create has returned carry
\* pairwise distinct ids, and once no create call is in flight the registry holds
\* exactly one entry per returned record, each found by its own id.
C1_CreatesDistinctNoneLost ==
    ~clearCalled =>
        /\ \A r1, r2 \in created : heap[r1].dataset_id = heap[r2].dataset_id => r1 = r2
        /\ NoCreateInFlight =>
              /\ Len(datasets) = Cardinality(created)
              /\ \A r \in created : DictGet(datasets, heap[r].dataset_id) = r

\* two creates overlapped (the record built second was inserted first) and both returned
C1_Witness ==
    /\ ~clearCalled
    /\ NoCreateInFlight
    /\ Cardinality(created) = 2
    /\ Len(datasets) = 2
    /\ datasets[1].ref > datasets[2].ref

\* C2: every record in the registry, and every record a create or get has
\* returned, has row_count and column_count equal to its own table's shape.
C2_CountsMatchShape ==
    /\ \A i \in 1..Len(datasets) : RowAndColumnCountsMatch(heap[datasets[i].ref])
    /\ \A p \in Procs :
          th[p].res.kind = "record" => RowAndColumnCountsMatch(heap[th[p].res.arg])

\* get returned a record that update_profile had already rewritten
C2_Witness ==
    \E p \in Procs :
        /\ th[p].res.op = "get"
        /\ th[p].res.kind = "record"
        /\ heap[th[p].res.arg].profile \in UpdateProfiles
        /\ heap[th[p].res.arg].shape[1] # heap[th[p].res.arg].shape[2]

\* C3: in every step, no record's updated_at decreases and no record's created_at
\* changes, and a record that has just been built has updated_at = created_at.
C3_UpdatedAtMonotone ==
    [][/\ \A r \in 1..Len(heap) :
              /\ heap'[r].updated_at >= heap[r].updated_at
              /\ heap'[r].created_at = heap[r].created_at
       /\ \A r \in (Len(heap) + 1)..Len(heap') :
              heap'[r].updated_at = heap'[r].created_at]_vars

\* update_profile has moved a registered record's updated_at past its created_at
C3_Witness ==
    \E i \in 1..Len(datasets) :
        /\ heap[datasets[i].ref].updated_at > heap[datasets[i].ref].created_at
        /\ heap[datasets[i].ref].profile \in UpdateProfiles

\* C4: the step in which get or update_profile looks up an id that is not in the
\* registry raises KeyError carrying that id and changes neither the registry's
\* ids nor any field of any record.
C4_NotFoundLeavesRegistry ==
    [][\A p \in Procs :
          (/\ th[p].pc \in {"get_53", "up_60"}
           /\ th'[p].pc # th[p].pc
           /\ ~HasKey(datasets, th[p].id))
          => /\ th'[p].res.kind = "KeyError"
             /\ th'[p].res.arg = th[p].id
             /\ datasets' = datasets
             /\ heap' = heap]_vars

\* both methods have failed on a missing id while the registry held a record
C4_Witness ==
    /\ Len(datasets) >= 1
    /\ \E p, q \in Procs :
          /\ th[p].res.op = "get" /\ th[p].res.kind = "KeyError"
          /\ ~HasKey(datasets, th[p].res.arg)
          /\ th[q].res.op = "update_profile" /\ th[q].res.kind = "KeyError"

\* C5: a list_recent(limit) result has at most limit records; when it returns,
\* each returned record's updated_at is >= that of the record after it, and no
\* record of the snapshot that was left out has a larger updated_at than a
\* returned one.
C5_ListRecentSortedNewestFirst ==
    \A p \in Procs :
        th[p].res.kind = "list" =>
            LET res == th[p].res
                n   == Len(Returned(res))
            IN  /\ n <= res.limit
                /\ \A i \in 1..n : \A j \in (i + 1)..Len(res.recs) :
                       res.ats[i] >= res.ats[j]

(***************************************************************************)
(* Claims about apply_filters, checked under SpecFilter.                   *)
(***************************************************************************)
RECURSIVE IsSubsequence(_, _)
IsSubsequence(a, b) ==
    IF a = <<>> THEN TRUE
    ELSE IF b = <<>> THEN FALSE
    ELSE IF Head(a) = Head(b) THEN IsSubsequence(Tail(a), Tail(b))
    ELSE IsSubsequence(a, Tail(b))

NullRows(df, column) == SelectSeq(df.rows, LAMBDA r : IsNa(r.cells[column]))

\* a null value, or a literal that is null once coerced to the column's type
NullLiteral(dtype, value) ==
    \/ value = Null
    \/ value = NaN
    \/ dtype = "float64" /\ value \in {Str(""), Str(" ")}

C7_EqualsNullSelectsNullRows ==
    (/\ Len(fFilters) = 1
     /\ fFilters[1].type = "equals"
     /\ ColumnExists(fTable, fFilters[1].column)
     /\ NullLiteral(fTable.dtype[fFilters[1].column], fFilters[1].value))
    => fResult = TableResult(NullRows(fTable, fFilters[1].column))

\* a blank string against the numeric column kept the null row and dropped the other
C7_Witness ==
    /\ fFilters = <<EqualsFilter("a", Str(" "))>>
    /\ Len(fTable.rows) = 2
    /\ fResult.kind = "table"
    /\ Len(fResult.rows) = 1
    /\ fResult.rows[1].idx = 2

\* C8: inserting a filter on a column the table does not have, at any position of
\* any filter list, leaves the outcome of apply_filters as it was; alone, such a
\* filter returns every row of the table.
C8_MissingColumnFilterSkipped ==
    /\ fLast = "insert_missing" => fResult = fPrev
    /\ (Len(fFilters) = 1 /\ ~ColumnExists(fTable, fFilters[1].column))
          => fResult = TableResult(fTable.rows)

\* the filter went in front of a filter that had already removed a row
C8_Witness ==
    /\ fLast = "insert_missing"
    /\ Len(fFilters) = 2
    /\ ~ColumnExists(fTable, fFilters[1].column)
    /\ ColumnExists(fTable, fFilters[2].column)
    /\ fResult.kind = "table"
    /\ Len(fResult.rows) = 1
    /\ Len(fTable.rows) = 2

(***************************************************************************)
(* Claims about the chart builders, checked under SpecChart.               *)
(***************************************************************************)
\* a bar chart with aggregation=count over a table that has column x, and column
\* color when one is configured
CountBarCase ==
    /\ cConfig.chart_type = "bar"
    /\ cConfig.aggregation = "count"
    /\ ColumnExists(cTable, cConfig.x)
    /\ cConfig.color # NoColumn => ColumnExists(cTable, cConfig.color)

\* the rows of the table that belong to a series entry: same x, and same color
\* when a color is configured
EntryRows(item) ==
    {i \in 1..Len(cTable.rows) :
        /\ cTable.rows[i].cells[cConfig.x] = item.category
        /\ cConfig.color # NoColumn => cTable.rows[i].cells[cConfig.color] = item.color}

RowsWithX == {i \in 1..Len(cTable.rows) : ~IsNa(cTable.rows[i].cells[cConfig.x])}

\* entry g comes before entry h in ascending key order: by x, then by color
EntryAscending(g, h) ==
    \/ CellLess(g.category, h.category)
    \/ /\ g.category = h.category
       /\ g.color # h.color
       /\ (~IsNa(g.color) /\ ~IsNa(h.color)) => CellLess(g.color, h.color)

CountBarSeriesRight ==
    /\ cResult.kind = "series"
    /\ \A i \in RowsWithX : \E g \in 1..Len(cResult.items) : i \in EntryRows(cResult.items[g])
    /\ \A g \in 1..Len(cResult.items) :
          /\ ~IsNa(cResult.items[g].category)
          /\ cResult.items[g].value.den = 1
          /\ cResult.items[g].value.num = Cardinality(EntryRows(cResult.items[g]))
          /\ cResult.items[g].value.num >= 1
    /\ \A g, h \in 1..Len(cResult.items) :
          g < h => EntryAscending(cResult.items[g], cResult.items[h])

\* C9: a count bar chart over a table that has column x (and color, when
\* configured) has one entry per group key found among the rows with non-null x,
\* valued with the number of those rows, in ascending order of key (x, then color).
C9_BarCountPerGroupAscending == CountBarCase => CountBarSeriesRight

\* the same, for the configs whose group keys are distinct columns, none of them
\* called "value"
C9_BarCountWithoutNameClash ==
    (CountBarCase /\ ~ResetIndexRaises(GroupKeys(cConfig))) => CountBarSeriesRight

\* a scatter chart with y configured over a table that has columns x and y
ScatterCase ==
    /\ cConfig.chart_type = "scatter"
    /\ cConfig.y # NoColumn
    /\ ColumnExists(cTable, cConfig.x)
    /\ ColumnExists(cTable, cConfig.y)

\* the (x, y) of the rows whose x and y are both non-null after numeric coercion,
\* in row order
ValidXY ==
    LET valid == SelectSeq(cTable.rows,
                     LAMBDA r : /\ ~IsNa(ToNumeric(r.cells[cConfig.x]))
                                /\ ~IsNa(ToNumeric(r.cells[cConfig.y])))
    IN  [i \in 1..Len(valid) |-> <<ToNumeric(valid[i].cells[cConfig.x]).n,
                                   ToNumeric(valid[i].cells[cConfig.y]).n>>]

Occurrences(seq, e) == Cardinality({i \in 1..Len(seq) : seq[i] = e})

ScatterPointsRight ==
    LET first  == SubSeq(ValidXY, 1, Min(cLimit, Len(ValidXY)))
        points == [i \in 1..Len(cResult.items) |->
                      <<cResult.items[i].x, cResult.items[i].y>>]
    IN  /\ cResult.kind = "points"
        /\ Len(points) = Len(first)
        /\ \A i \in 1..Len(first) : Occurrences(points, first[i]) = Occurrences(first, first[i])
        /\ \A i \in 1..(Len(points) - 1) : points[i][1] <= points[i + 1][1]

\* C10: the scatter points are the first min(limit, k) of the k rows whose x and y
\* are non-null after numeric coercion, emitted in ascending order of x (limit is
\* 500 when the chart is built through build_chart_response).
C10_ScatterFirstRowsSortedByX == ScatterCase => ScatterPointsRight

\* the same, for the configs whose color is not the x or the y column
C10_ScatterWithoutColorAlias ==
    (ScatterCase /\ cConfig.color \notin {cConfig.x, cConfig.y}) => ScatterPointsRight

\* a histogram with binCount >= 1 over a table that has column x
HistogramCase ==
    /\ cConfig.chart_type = "histogram"
    /\ ColumnExists(cTable, cConfig.x)
    /\ cConfig.bin_count >= 1

\* the non-null numeric values of column x, as the set of (row, value)
XValues ==
    {<<i, ToNumeric(cTable.rows[i].cells[cConfig.x]).n>> :
        i \in {j \in 1..Len(cTable.rows) : ~IsNa(ToNumeric(cTable.rows[j].cells[cConfig.x]))}}

XMin == CHOOSE m \in {e[2] : e \in XValues} : \A e \in XValues : m <= e[2]
XMax == CHOOSE m \in {e[2] : e \in XValues} : \A e \in XValues : m >= e[2]

\* the fraction q equals the integer k; fraction q is at most / below the integer k
FracEq(q, k) == q.num = k * q.den
FracLe(q, k) == q.num <= k * q.den
FracGt(q, k) == q.num > k * q.den

RECURSIVE SumCounts(_, _)
SumCounts(items, i) ==
    IF i > Len(items) THEN 0 ELSE items[i].count + SumCounts(items, i + 1)

\* bins [binStart, binEnd) over the values, the last one closed at binEnd
BinsCountTheirInterval ==
    \A b \in 1..Len(cResult.items) :
        cResult.items[b].count =
            Cardinality({e \in XValues :
                /\ FracLe(cResult.items[b].binStart, e[2])
                /\ \/ FracGt(cResult.items[b].binEnd, e[2])
                   \/ b = Len(cResult.items) /\ FracEq(cResult.items[b].binEnd, e[2])})

\* binCount bins of width (max - min) / binCount from min to max
BinsSpanMinMax ==
    LET n == cConfig.bin_count IN
    /\ Len(cResult.items) = n
    /\ FracEq(cResult.items[1].binStart, XMin)
    /\ FracEq(cResult.items[n].binEnd, XMax)
    /\ \A b \in 1..n :
          /\ cResult.items[b].binEnd.den = cResult.items[b].binStart.den
          /\ n * (cResult.items[b].binEnd.num - cResult.items[b].binStart.num)
                = (XMax - XMin) * cResult.items[b].binStart.den
    /\ \A b \in 1..(n - 1) : cResult.items[b].binEnd = cResult.items[b + 1].binStart

HistogramBinsRight ==
    /\ cResult.kind = "bins"
    /\ IF XValues = {} THEN cResult.items = <<>>
       ELSE /\ BinsSpanMinMax
            /\ BinsCountTheirInterval
            /\ SumCounts(cResult.items, 1) = Cardinality(XValues)

\* C11: a histogram with binCount >= 1 over a column with a numeric value has
\* binCount bins of width (max - min) / binCount, the first starting at min(x), the
\* last ending at max(x), bin i counting the values in [edge_i, edge_i+1) and the
\* last bin also max, the counts summing to the number of numeric values, also when
\* all values are equal; with no numeric value the bin list is empty.
C11_HistogramBinsSpanMinMax == HistogramCase => HistogramBinsRight

\* the same, for the columns whose numeric values are not all equal
C11_HistogramOfDistinctValues ==
    (HistogramCase /\ (XValues # {} => XMin # XMax)) => HistogramBinsRight

\* all values equal to v: the bins span [v - 0.5, v + 0.5] and their counts still
\* sum to the number of values
C11_HistogramOfEqualValues ==
    (HistogramCase /\ XValues # {} /\ XMin = XMax) =>
        LET n == cConfig.bin_count IN
        /\ cResult.kind = "bins"
        /\ Len(cResult.items) = n
        /\ 2 * cResult.items[1].binStart.num = (2 * XMin - 1) * cResult.items[1].binStart.den
        /\ 2 * cResult.items[n].binEnd.num = (2 * XMax + 1) * cResult.items[n].binEnd.den
        /\ BinsCountTheirInterval
        /\ SumCounts(cResult.items, 1) = Cardinality(XValues)

\* the column is not one of the table's
Absent(column) == column \notin DOMAIN cTable.dtype

\* the columns a config refers to: x, a configured y that the chart uses (bar with
\* sum or avg, scatter), a configured color
ReferencedColumns ==
    {cConfig.x}
    \cup (IF /\ cConfig.y # NoColumn
              /\ \/ cConfig.chart_type = "scatter"
                 \/ cConfig.chart_type = "bar" /\ cConfig.aggregation # "count"
           THEN {cConfig.y} ELSE {})
    \cup (IF cConfig.color # NoColumn THEN {cConfig.color} ELSE {})

\* the store is as it was when the chart was asked for
RegistryUntouched == datasets = <<>> /\ heap = <<>>

\* C12: a chart of any type whose config refers to a column absent from the table
\* (x, a configured y the chart uses, a configured color) fails with NotFound
\* naming an absent column; no payload is returned, the registry is not mutated.
C12_AbsentColumnNotFound ==
    (cConfig.chart_type # "none" /\ \E c \in ReferencedColumns : Absent(c)) =>
        /\ cResult.kind = "KeyError"
        /\ cResult.arg \in ReferencedColumns /\ Absent(cResult.arg)
        /\ RegistryUntouched

\* the columns a builder looks up, in the order it looks them up: the color of a
\* scatter chart and the y and color of a histogram are not among them
LookedUpColumns ==
    CASE cConfig.chart_type = "bar" ->
            <<cConfig.x>>
            \o (IF cConfig.color # NoColumn THEN <<cConfig.color>> ELSE <<>>)
            \o (IF cConfig.aggregation # "count" /\ cConfig.y # NoColumn
                THEN <<cConfig.y>> ELSE <<>>)
      [] cConfig.chart_type = "scatter" ->
            IF cConfig.y # NoColumn THEN <<cConfig.x, cConfig.y>> ELSE <<>>
      [] OTHER -> <<cConfig.x>>

\* C12 as amended: the build fails with NotFound naming the first absent column
\* among those the builder looks up; it fails with NotFound in no other case; a
\* scatter chart without y fails with InvalidArgument whatever its columns; the
\* registry is not mutated.
C12_LookedUpColumnNotFound ==
    cConfig.chart_type # "none" =>
        /\ RegistryUntouched
        /\ IF \E k \in 1..Len(LookedUpColumns) : Absent(LookedUpColumns[k])
           THEN LET k == CHOOSE j \in 1..Len(LookedUpColumns) :
                            /\ Absent(LookedUpColumns[j])
                            /\ \A h \in 1..(j - 1) : ~Absent(LookedUpColumns[h])
                IN  /\ cResult.kind = "KeyError"
                    /\ cResult.arg = LookedUpColumns[k]
           ELSE cResult.kind # "KeyError"
        /\ (cConfig.chart_type = "scatter" /\ cConfig.y = NoColumn) =>
              cResult.kind = "ValueError"

\* a sum bar chart over a table that has x and color but not y fails naming y
C12_Witness ==
    /\ cConfig.chart_type = "bar"
    /\ cConfig.aggregation = "sum"
    /\ ~Absent(cConfig.x)
    /\ cConfig.color # NoColumn /\ ~Absent(cConfig.color)
    /\ cConfig.y # NoColumn /\ Absent(cConfig.y)
    /\ Len(cTable.rows) > 0
    /\ cResult = ColumnKeyError(cConfig.y)

=============================================================================
